---------------------------- MODULE Spec2Model ----------------------------
(***************************************************************************)
(* Ardufocus motion control engine (ardufocus/stepper.cpp) and resistor    *)
(* keyboard input layer (ui_reskeybd.cpp).                                 *)
(*                                                                         *)
(* A stepper object is a record holding the members of class stepper; the  *)
(* member functions are operators from records to records, and the actions *)
(* apply them to the axis the caller addresses.  Blocks the code runs      *)
(* under ATOMIC_BLOCK, and the timer ISR itself, are single actions;       *)
(* member functions without ATOMIC_BLOCK are split at their statements     *)
(* (and multi-byte loads at their bytes) so that the ISR can run between.  *)
(***************************************************************************)
EXTENDS Integers, Sequences, FiniteSets, TLC

VARIABLES
  profile,      \* acceleration profile selected in config.h (fixed per build)
  stp,          \* stp[m]: the stepper object of motor m
  counter,      \* static uint8_t counter of stepper::tick (shared by all axes)
  pc,           \* main loop: "idle", or the statement a preempted call is at
  rd,           \* the multi-byte load a getter is performing
  last,         \* the operation that produced this state (history)
  prev,         \* the operation before that one (history)
  populated,    \* set_target_position has been called at least once (history)
  ncmd,         \* API calls issued so far (history, bounded)
  nref,         \* pulses refused so far (history, bounded)
  since,        \* what holds since the last halt() / set_current_position()
                \* of motor 1 (history)
  threshold,    \* debounce threshold handed to ResKeybd::debounce
  deb,          \* the in/out arguments of ResKeybd::debounce for one button
  run,          \* consecutive true samples seen from previous_state == false,
                \* counter == 0 (history)
  runTrig,      \* triggers fired during that run (history)
  hist,         \* the raw samples observed so far (history, bounded)
  diff,         \* the run of samples differing from the stable value that
                \* is in progress or has just ended (history)
  kbd,          \* ResKeybd: motor and the statics of ResKeybd::tick
  obs           \* what the last keyboard poll decoded, reported and called
                \* (history)

\* The variables of the input layer; the engine's operations leave them alone.
inputVars == <<threshold, deb, run, runTrig, hist, diff, kbd, obs>>

vars == <<profile, stp, counter, pc, rd, last, prev, populated, ncmd, nref, since,
          threshold, deb, run, runTrig, hist, diff, kbd, obs>>

---------------------------------------------------------------------------
(* Program constants *)

MOTOR1_MAX_SPEED == 500
MOTOR1_MIN_SPEED == 25
MOTOR2_MAX_SPEED == 500
MOTOR2_MIN_SPEED == 25

\* Defaults documented in config.h for an undefined ACCEL_DURATION / ACCEL_MIN_STEPS.
ACCEL_DURATION == 250
ACCEL_MIN_STEPS == 10

\* Rate of the timer0 interrupt that calls stepper::tick.  Its definition is
\* outside the analysed sources; the model uses the smallest rate for which
\* TIMER0_FREQ / (2 * max_speed) - 1 is not negative.
TIMER0_FREQ == 1000

\* Debounce threshold the keyboard passes to ResKeybd::debounce.  Its
\* definition is outside the analysed sources.
UI_KAP_BUTTON_DEBOUNCE == 3

\* Bytes of a uint32_t position member.
PositionBytes == 4

\* Range of the uint8_t pass counter of stepper::tick.
CounterMod == 256

\* Range of one byte of a multi-byte member on the 8-bit target.
ByteMod == 256

Motors == {1, 2}

\* The forward extreme the keyboard commands, (uint32_t)-1.  The model's
\* integers end at 2^31 - 1, which stands for it; no operation of the
\* engine depends on the value beyond its being the largest position.
TravelEnd == 2147483647

Profiles == {"linear", "trapezoid", "smoothstep"}

\* #define USE_TRAPEZOID_ACCEL
ConfiguredProfile == "trapezoid"

---------------------------------------------------------------------------
(* Bounds of the model *)

\* Positions used by the engine specification are 0..MaxPos.
MaxPos == 12

\* API calls issued in one behaviour of the engine specification.
MaxCmds == 3

\* Pulses the emitter may refuse in one behaviour.
MaxRefusals == 1

\* Resolution of the fixed-point stand-in for the float progress value f.
FQ == 1000

\* Targets of the planner specification are 0..MaxTargetPos.
MaxTargetPos == 620

\* Single moves of the planner cover distances 0..PlanShort and
\* 2*ACCEL_DURATION - PlanLong .. 2*ACCEL_DURATION + PlanLong.
PlanShort == 24
PlanLong == 3

\* Longest move of the convergence specification.
LiveSpan == 11

\* Longest move of the step specification, at either end of the range.
StepSpan == 3

\* Length of the moves of the two-axis specification.
PairSpan == 3

\* Steps of the move that the getter specification reads across.
ReadSpan == 4

\* Debounce thresholds and raw samples per behaviour.
MaxThreshold == 3
MaxSamples == 7

\* Raw samples handed to the decoder are 0..MaxSample (a 10-bit conversion).
MaxSample == 1023

\* The keyboard specification lets an axis travel KbdReach steps from either
\* end of its range, for debounce thresholds 1..KbdMaxThreshold.
KbdReach == 1
KbdMaxThreshold == 2

\* Ticks that pass the frequency gate in one behaviour of the keyboard
\* specification.
KbdPasses == 2

---------------------------------------------------------------------------
(* util:: helpers used by update_freq *)

\* map(s, 0, hi, 0.0, 1.0): s / hi as a fraction of FQ.
map(s, hi) == (FQ * s) \div hi

\* util::smootheststep(edge0, edge1, x): clamp((x-edge0)/(edge1-edge0), 0, 1)
\* shaped by 3x^2 - 2x^3, as a fraction of FQ.
smootheststep(edge0, edge1, x) ==
  LET xq == IF x <= edge0 THEN 0
            ELSE IF x >= edge1 THEN FQ
            ELSE (FQ * (x - edge0)) \div (edge1 - edge0)
  IN  (xq * xq * (3 * FQ - 2 * xq)) \div (FQ * FQ)

\* util::lerp(a, b, f) converted to uint16_t (truncation), f a fraction of FQ.
lerp(a, b, fq) == a + ((b - a) * fq) \div FQ

---------------------------------------------------------------------------
(* class stepper *)

\* The object after construction and stepper::init().
NewStepper(minspeed, maxspeed) ==
  [ moving |-> FALSE, current |-> 0, target |-> 0,
    relative |-> 0, distance |-> 0, easein |-> 0, easeout |-> 0,
    m_speed |-> 2, m_set_speed |-> minspeed, m_ovf_counter |-> 0,
    m_min_speed |-> minspeed, m_max_speed |-> maxspeed ]

move_clear_restarts(s) == [s EXCEPT !.m_ovf_counter = 0, !.relative = 0]

\* stepper::move(), first statement: m_ovf_counter = 0
move_clear(s) == [s EXCEPT !.m_ovf_counter = 0]

\* stepper::move(), second statement: m_position.moving = true
move_set_idle(s) == s

move_set(s) == [s EXCEPT !.moving = TRUE]

is_moving(s) == s.moving

halt_keeps_target(s) == [s EXCEPT !.moving = FALSE]

halt_keeps_moving(s) == [s EXCEPT !.target = s.current]

halt(s) == [s EXCEPT !.target = s.current, !.moving = FALSE]

set_current_position_keeps_target(s, p) == [s EXCEPT !.current = p]

set_current_position(s, p) == [s EXCEPT !.current = p, !.target = p]

get_speed_lost(s) == 0

get_speed(s) == s.m_speed

set_speed(s, v) == [s EXCEPT !.m_speed = v]

AbsDiff(a, b) == IF a > b THEN a - b ELSE b - a

Max(a, b) == IF a >= b THEN a ELSE b

set_target_position_nodegenerate(s, t, prof) ==
  LET d == AbsDiff(s.current, t)
      s1 == [s EXCEPT !.target = t, !.relative = 0, !.distance = d]
  IN  IF d >= ACCEL_MIN_STEPS
      THEN IF prof = "linear"
           THEN [s1 EXCEPT !.easein = d \div 2, !.easeout = d \div 2]
           ELSE [s1 EXCEPT !.easein = ACCEL_DURATION,
                           !.easeout = Max(d, ACCEL_DURATION) - ACCEL_DURATION]
      ELSE s1

set_target_position_roundup(s, t, prof) ==
  LET d == AbsDiff(s.current, t)
      s1 == [s EXCEPT !.target = t, !.relative = 0, !.distance = d]
  IN  IF d >= ACCEL_MIN_STEPS
      THEN IF prof = "linear" \/ d < 2 * ACCEL_DURATION
           THEN [s1 EXCEPT !.easein = (d + 1) \div 2, !.easeout = (d + 1) \div 2]
           ELSE [s1 EXCEPT !.easein = ACCEL_DURATION,
                           !.easeout = d - ACCEL_DURATION]
      ELSE s1

set_target_position_starts(s, t, prof) ==
  LET d == AbsDiff(s.current, t)
      s1 == [s EXCEPT !.target = t, !.relative = 0, !.distance = d,
                      !.moving = TRUE]
  IN  IF d >= ACCEL_MIN_STEPS
      THEN IF prof = "linear"
           THEN [s1 EXCEPT !.easein = d \div 2, !.easeout = d \div 2]
           ELSE IF d < 2 * ACCEL_DURATION
                THEN [s1 EXCEPT !.easein = d \div 2, !.easeout = d \div 2]
                ELSE [s1 EXCEPT !.easein = ACCEL_DURATION,
                                !.easeout = d - ACCEL_DURATION]
      ELSE s1

set_target_position(s, t, prof) ==
  LET d == AbsDiff(s.current, t)
      s1 == [s EXCEPT !.target = t, !.relative = 0, !.distance = d]
  IN  IF d >= ACCEL_MIN_STEPS
      THEN IF prof = "linear"
           THEN [s1 EXCEPT !.easein = d \div 2, !.easeout = d \div 2]
           ELSE IF d < 2 * ACCEL_DURATION
                THEN [s1 EXCEPT !.easein = d \div 2, !.easeout = d \div 2]
                ELSE [s1 EXCEPT !.easein = ACCEL_DURATION,
                                !.easeout = d - ACCEL_DURATION]
      ELSE s1

\* The progress value f of update_freq, as a fraction of FQ.
Progress(s, prof) ==
  CASE prof = "linear" ->
         map(IF s.relative <= s.easein THEN s.relative
             ELSE s.distance - s.relative, s.easein)
    [] prof = "trapezoid" ->
         map(IF s.relative <= s.easein THEN s.relative
             ELSE IF s.relative >= s.easeout THEN s.distance - s.relative
             ELSE ACCEL_DURATION, ACCEL_DURATION)
    [] prof = "smoothstep" ->
         (smootheststep(0, s.easein, s.relative)
            * (FQ - smootheststep(s.easeout, s.distance, s.relative))) \div FQ

update_freq_noclamp(s, prof) ==
  IF s.distance >= ACCEL_MIN_STEPS
  THEN [s EXCEPT !.m_set_speed =
          lerp(s.m_min_speed, s.m_max_speed,
               map(IF s.relative <= s.easein THEN s.relative
                   ELSE s.distance - s.relative,
                   IF prof = "linear" THEN s.easein ELSE ACCEL_DURATION))]
  ELSE [s EXCEPT !.m_set_speed = s.m_min_speed]

update_freq(s, prof) ==
  IF s.distance >= ACCEL_MIN_STEPS
  THEN [s EXCEPT !.m_set_speed =
          lerp(s.m_min_speed, s.m_max_speed, Progress(s, prof))]
  ELSE [s EXCEPT !.m_set_speed = s.m_min_speed]

update_position_norel(s, direction, prof) ==
  update_freq([s EXCEPT !.current = s.current + direction], prof)

update_position_reversed(s, direction, prof) ==
  update_freq([s EXCEPT !.current = s.current - direction,
                        !.relative = s.relative + 1], prof)

update_position(s, direction, prof) ==
  update_freq([s EXCEPT !.current = s.current + direction,
                        !.relative = s.relative + 1], prof)

FreqGateHolds_late(s) ==
  s.m_ovf_counter < TIMER0_FREQ \div (2 * s.m_set_speed)

\* The frequency gate of tick: (m_ovf_counter++) < TIMER0_FREQ/(m_set_speed<<1) - 1
FreqGateHolds(s) ==
  s.m_ovf_counter < (TIMER0_FREQ \div (2 * s.m_set_speed)) - 1

SpeedGateHolds_inverted(s, cnt) == cnt % (s.m_speed \div 2) = 0

\* The speed gate of tick: (counter++) % (m_speed>>1) != 0
SpeedGateHolds(s, cnt) == cnt % (s.m_speed \div 2) # 0

\* stepper::tick() on object s with the static counter cnt; `issued` is the
\* answer of step_cw()/step_ccw().  Yields the object, the counter and the
\* branch taken.
tick_nohalt(s, cnt, issued, prof) ==
  IF ~s.moving THEN [s |-> s, counter |-> cnt, branch |-> "tick_sleep"]
  ELSE IF FreqGateHolds(s)
  THEN [s |-> [s EXCEPT !.m_ovf_counter = (s.m_ovf_counter + 1) % 65536],
        counter |-> cnt, branch |-> "tick_freq_gate"]
  ELSE LET s0 == [s EXCEPT !.m_ovf_counter = 0]
           c1 == (cnt + 1) % CounterMod
       IN  IF SpeedGateHolds(s, cnt)
           THEN [s |-> s0, counter |-> c1, branch |-> "tick_speed_gate"]
           ELSE IF s.target > s.current
           THEN IF issued
                THEN [s |-> update_position(s0, 1, prof), counter |-> c1,
                      branch |-> "tick_step"]
                ELSE [s |-> s0, counter |-> c1, branch |-> "tick_refused"]
           ELSE IF s.target < s.current
           THEN IF issued
                THEN [s |-> update_position(s0, -1, prof), counter |-> c1,
                      branch |-> "tick_step"]
                ELSE [s |-> s0, counter |-> c1, branch |-> "tick_refused"]
           ELSE [s |-> s0, counter |-> c1, branch |-> "tick_halt"]

tick_counts_refused(s, cnt, issued, prof) ==
  IF ~s.moving THEN [s |-> s, counter |-> cnt, branch |-> "tick_sleep"]
  ELSE IF FreqGateHolds(s)
  THEN [s |-> [s EXCEPT !.m_ovf_counter = (s.m_ovf_counter + 1) % 65536],
        counter |-> cnt, branch |-> "tick_freq_gate"]
  ELSE LET s0 == [s EXCEPT !.m_ovf_counter = 0]
           c1 == (cnt + 1) % CounterMod
       IN  IF SpeedGateHolds(s, cnt)
           THEN [s |-> s0, counter |-> c1, branch |-> "tick_speed_gate"]
           ELSE IF s.target > s.current
           THEN [s |-> update_position(s0, 1, prof), counter |-> c1,
                 branch |-> IF issued THEN "tick_step" ELSE "tick_refused"]
           ELSE IF s.target < s.current
           THEN [s |-> update_position(s0, -1, prof), counter |-> c1,
                 branch |-> IF issued THEN "tick_step" ELSE "tick_refused"]
           ELSE [s |-> halt(s0), counter |-> c1, branch |-> "tick_halt"]

tick(s, cnt, issued, prof) ==
  IF ~s.moving THEN [s |-> s, counter |-> cnt, branch |-> "tick_sleep"]
  ELSE IF FreqGateHolds(s)
  THEN [s |-> [s EXCEPT !.m_ovf_counter = (s.m_ovf_counter + 1) % 65536],
        counter |-> cnt, branch |-> "tick_freq_gate"]
  ELSE LET s0 == [s EXCEPT !.m_ovf_counter = 0]
           c1 == (cnt + 1) % CounterMod
       IN  IF SpeedGateHolds(s, cnt)
           THEN [s |-> s0, counter |-> c1, branch |-> "tick_speed_gate"]
           ELSE IF s.target > s.current
           THEN IF issued
                THEN [s |-> update_position(s0, 1, prof), counter |-> c1,
                      branch |-> "tick_step"]
                ELSE [s |-> s0, counter |-> c1, branch |-> "tick_refused"]
           ELSE IF s.target < s.current
           THEN IF issued
                THEN [s |-> update_position(s0, -1, prof), counter |-> c1,
                      branch |-> "tick_step"]
                ELSE [s |-> s0, counter |-> c1, branch |-> "tick_refused"]
           ELSE [s |-> halt(s0), counter |-> c1, branch |-> "tick_halt"]

---------------------------------------------------------------------------
(* Operations on one axis.  Each leaves the call budget ncmd to its caller. *)

NoRead == [field |-> "none", order |-> "none", idx |-> 0, bytes |-> <<>>,
           held |-> {}, ticks |-> 0, value |-> 0]

InitSteppers ==
  [m \in Motors |->
     IF m = 1 THEN NewStepper(MOTOR1_MIN_SPEED, MOTOR1_MAX_SPEED)
     ELSE NewStepper(MOTOR2_MIN_SPEED, MOTOR2_MAX_SPEED)]

\* The axis the specifications drive.
M1 == stp[1]

\* The debounce record of a button nobody has touched.
NewDebounce ==
  [current_state |-> FALSE, previous_state |-> FALSE,
   trigger_event |-> FALSE, counter |-> 0]

\* No run of differing samples seen yet.
NoDiff == [n |-> 0, stable |-> FALSE, trig |-> 0, reported |-> TRUE,
           closed |-> FALSE]

\* motor_t ResKeybd::motor = MOTOR_ONE, and the statics of ResKeybd::tick:
\* counter[3], previous_state[3] (forward, backward, switch) and
\* old_motor_speed.
NewKeybd ==
  [motor |-> 1,
   counter |-> <<0, 0, 0>>,
   previous_state |-> <<FALSE, FALSE, FALSE>>,
   old_motor_speed |-> 0]

\* No keyboard poll has run yet.
NoPoll ==
  [value |-> 0, act |-> "NOTHING",
   state |-> <<FALSE, FALSE, FALSE>>, trigger |-> <<FALSE, FALSE, FALSE>>,
   calls |-> <<>>, motor0 |-> 1, moving0 |-> FALSE,
   ep |-> "neutral", snap |-> 0, ncmd0 |-> 0, turned |-> FALSE,
   heldPoll |-> FALSE, refused |-> FALSE, refMotor |-> 1]

\* The keyboard and the histories of the input layer before the first poll.
KeybdIdle ==
  /\ diff = NoDiff
  /\ kbd = NewKeybd
  /\ obs = NoPoll

\* The input layer at rest, with the configured threshold.
InputIdle ==
  /\ threshold = UI_KAP_BUTTON_DEBOUNCE
  /\ deb = NewDebounce
  /\ run = 0
  /\ runTrig = 0
  /\ hist = <<>>
  /\ KeybdIdle

\* The return paths of stepper::tick.
TickBranches ==
  {"tick_sleep", "tick_freq_gate", "tick_speed_gate", "tick_step",
   "tick_refused", "tick_halt"}

\* No halt() and no set_current_position() seen yet.
NoSince == [halted |-> FALSE, haltedAt |-> 0, rest |-> -1, retargeted |-> FALSE,
            retry |-> "none", refusedAt |-> -1, ticks |-> -1,
            passes |-> -1, gap |-> 0, wait |-> 0, period |-> 0,
            moveTicks |-> -1, preempt |-> "none",
            moveFrom |-> [s |-> NewStepper(MOTOR1_MIN_SPEED, MOTOR1_MAX_SPEED),
                          counter |-> 0]]

\* The history since the last halt() and the last set_current_position():
\* `halted` from the return of an API halt() until the next move() or
\* set_current_position() call, with the position the axis had then; `rest`
\* the position given to set_current_position() until set_target_position()
\* (`retargeted`) is given another one and a step follows.
\* `ticks` counts the timer ticks that found the axis moving since the last
\* move() returned (-1: not counted in this specification).
\* `passes` counts the passes of the frequency gate since the last step
\* attempt (-1: none yet since move() or set_speed()); `gap` is the count
\* the latest step attempt found, itself included (0: not measured).
\* `wait` counts the ticks the frequency gate has held back since move()
\* cleared m_ovf_counter or the gate last opened; `period` is the number of
\* ticks the latest opening took, itself included (0: none yet).
\* `moveFrom` is the object and the pass counter as the latest move() found
\* them, kept until that move() returns; `moveTicks` counts the ticks that
\* preempted it (2: two or more; -1: not recorded in this specification)
\* and `preempt` is the branch the first of them took.
\* `retry` is "pending" from a tick whose pulse the emitter refused (at
\* position `refusedAt`) until the next pulse or API call, and "done" once
\* that next pulse was confirmed.
SinceAfter(op, s) ==
  LET base ==
        IF op = "halt" THEN [since EXCEPT !.halted = TRUE, !.haltedAt = s.current]
        ELSE IF op = "move_clear" THEN [since EXCEPT !.halted = FALSE]
        ELSE IF op = "set_current_position"
        THEN [since EXCEPT !.halted = FALSE, !.rest = s.current,
                           !.retargeted = FALSE]
        ELSE IF op = "set_target_position" /\ since.rest # -1
        THEN [since EXCEPT !.retargeted = (s.target # since.rest)]
        ELSE IF op = "tick_step" /\ since.retargeted
        THEN [since EXCEPT !.rest = -1, !.retargeted = FALSE]
        ELSE since
      waiting == op \in {"tick_sleep", "tick_freq_gate", "tick_speed_gate"}
      resumed == op = "tick_step" /\ since.retry = "pending"
  IN  [base EXCEPT
         !.retry = IF op = "tick_refused" THEN "pending"
                   ELSE IF waiting THEN @
                   ELSE IF resumed THEN "done"
                   ELSE "none",
         !.refusedAt = IF op = "tick_refused" THEN s.current
                       ELSE IF waiting \/ resumed THEN @
                       ELSE -1,
         !.ticks = IF @ < 0 THEN @
                   ELSE IF op = "move" THEN 0
                   ELSE IF op \in {"tick_freq_gate", "tick_speed_gate",
                                   "tick_step", "tick_refused", "tick_halt"}
                   THEN @ + 1
                   ELSE @,
         !.passes = IF op \in {"move", "set_speed"} THEN -1
                    ELSE IF op \in {"tick_step", "tick_refused", "tick_halt"}
                    THEN 0
                    ELSE IF op = "tick_speed_gate" /\ @ >= 0 THEN @ + 1
                    ELSE @,
         !.gap = IF op \in {"move", "set_speed"} THEN 0
                 ELSE IF op \in {"tick_step", "tick_refused", "tick_halt"}
                 THEN (IF since.passes >= 0 THEN since.passes + 1 ELSE 0)
                 ELSE @,
         !.wait = IF op = "tick_freq_gate" THEN @ + 1
                  ELSE IF op \in {"move_clear", "tick_speed_gate", "tick_step",
                                  "tick_refused", "tick_halt"}
                  THEN 0
                  ELSE @,
         !.period = IF op \in {"tick_speed_gate", "tick_step", "tick_refused",
                               "tick_halt"}
                    THEN since.wait + 1
                    ELSE IF op = "move_clear" THEN 0
                    ELSE @,
         !.moveTicks = IF @ < 0 THEN @
                       ELSE IF op = "move_clear" THEN 0
                       ELSE IF pc = "move_set" /\ op \in TickBranches
                       THEN (IF @ = 0 THEN 1 ELSE 2)
                       ELSE @,
         !.preempt = IF since.moveTicks < 0 THEN @
                     ELSE IF op = "move_clear" THEN "none"
                     ELSE IF pc = "move_set" /\ op \in TickBranches
                               /\ since.moveTicks = 0
                     THEN op
                     ELSE @,
         !.moveFrom = IF since.moveTicks < 0 THEN @
                      ELSE IF op = "move_clear"
                      THEN [s |-> stp[1], counter |-> counter]
                      ELSE IF op = "move" THEN NoSince.moveFrom
                      ELSE @]

\* History bookkeeping of an engine operation named op.
Did(op) ==
  /\ prev' = last
  /\ last' = op
  /\ since' = SinceAfter(op, stp'[1])
  /\ UNCHANGED inputVars

\* stepper::move() up to the point where the ISR may preempt it.
MoveBegin(m) ==
  /\ pc = "idle"
  /\ stp' = [stp EXCEPT ![m] = move_clear(stp[m])]
  /\ pc' = "move_set"
  /\ Did("move_clear")
  /\ UNCHANGED <<profile, counter, rd, populated, nref>>

\* The rest of stepper::move().
MoveEnd(m) ==
  /\ pc = "move_set"
  /\ stp' = [stp EXCEPT ![m] = move_set(stp[m])]
  /\ pc' = "idle"
  /\ Did("move")
  /\ UNCHANGED <<profile, counter, rd, populated, ncmd, nref>>

Halt(m) ==
  /\ pc = "idle"
  /\ stp' = [stp EXCEPT ![m] = halt(stp[m])]
  /\ Did("halt")
  /\ UNCHANGED <<profile, counter, pc, rd, populated, nref>>

SetCurrentPosition(m, p) ==
  /\ pc = "idle"
  /\ stp' = [stp EXCEPT ![m] = set_current_position(stp[m], p)]
  /\ Did("set_current_position")
  /\ UNCHANGED <<profile, counter, pc, rd, populated, nref>>

SetSpeed(m, v) ==
  /\ pc = "idle"
  /\ stp' = [stp EXCEPT ![m] = set_speed(stp[m], v)]
  /\ Did("set_speed")
  /\ UNCHANGED <<profile, counter, pc, rd, populated, nref>>

SetTargetPosition(m, t) ==
  /\ pc = "idle"
  /\ stp' = [stp EXCEPT ![m] = set_target_position(stp[m], t, profile)]
  /\ populated' = TRUE
  /\ Did("set_target_position")
  /\ UNCHANGED <<profile, counter, pc, rd, nref>>

\* One timer0 interrupt for axis m; `issued` is the pulse emitter's answer.
\* A getter preempted by the interrupt records the value its member now holds
\* (rd.held, rd.ticks: history).
Tick(m, issued) ==
  LET r == tick(stp[m], counter, issued, profile)
  IN  /\ issued \/ (r.branch = "tick_refused" /\ nref < MaxRefusals)
      /\ stp' = [stp EXCEPT ![m] = r.s]
      /\ counter' = r.counter
      /\ Did(r.branch)
      /\ nref' = IF r.branch = "tick_refused" THEN nref + 1 ELSE nref
      /\ rd' = IF pc = "read"
               THEN [rd EXCEPT !.held = @ \cup {r.s[rd.field]},
                               !.ticks = @ + 1]
               ELSE rd
      /\ UNCHANGED <<profile, pc, populated, ncmd>>

TickIssued == Tick(1, TRUE)

TickRefused == Tick(1, FALSE)

---------------------------------------------------------------------------
(* Engine specification: one axis commanded through the API, at most       *)
(* MaxCmds calls, while the timer interrupt ticks it.                      *)

Init ==
  /\ profile = ConfiguredProfile
  /\ stp = InitSteppers
  /\ counter = 0
  /\ pc = "idle"
  /\ rd = NoRead
  /\ last = "init"
  /\ prev = "init"
  /\ populated = FALSE
  /\ ncmd = 0
  /\ nref = 0
  /\ since = NoSince
  /\ InputIdle

Targets == {0, 3, MaxPos}

Speeds == {2, 5}

Budgeted(A) ==
  /\ ncmd < MaxCmds
  /\ A
  /\ ncmd' = ncmd + 1

Next ==
  \/ Budgeted(MoveBegin(1))
  \/ MoveEnd(1)
  \/ Budgeted(Halt(1))
  \/ \E p \in Targets : Budgeted(SetCurrentPosition(1, p))
  \/ \E v \in Speeds : Budgeted(SetSpeed(1, v))
  \/ \E t \in Targets : Budgeted(SetTargetPosition(1, t))
  \/ TickIssued
  \/ TickRefused

Spec == Init /\ [][Next]_vars

TickPassed == {"tick_step", "tick_refused", "tick_halt"}

---------------------------------------------------------------------------
(* C2: moving is false whenever current == target.                         *)
(* As stated this fails: move() at rest, set_current_position() during a   *)
(* move and the final step of a move all leave moving == true with         *)
(* current == target until a later tick passes both gates.                 *)
C2_MovingFalseAtRest == M1.current = M1.target => ~M1.moving

(* C2 (amended): a tick that passes both gates while current == target     *)
(* calls halt(): it emits no pulse, leaves current alone and sets moving   *)
(* to false.                                                               *)
C2_HaltOnArrival ==
  [][(last' \in TickPassed /\ M1.current = M1.target)
       => (last' = "tick_halt" /\ ~M1'.moving
           /\ M1'.current = M1.current /\ M1'.target = M1.target)]_vars

C2_Witness ==
  /\ last = "tick_halt"
  /\ M1.distance > 0
  /\ M1.relative = M1.distance
  /\ ~M1.moving
  /\ M1.current = M1.target

(* C3: halt() leaves target == current and moving == false, and a second   *)
(* halt() right after the first changes no field of the Motion State.      *)
C3_HaltIdempotent ==
  [][(last' = "halt"
        => /\ M1'.target = M1'.current
           /\ ~M1'.moving
           /\ M1'.current = M1.current
           /\ halt(M1') = M1')
     /\ ((last = "halt" /\ last' = "halt")
        => (stp' = stp /\ counter' = counter))]_vars

C3_Witness ==
  /\ last = "halt"
  /\ prev = "halt"
  /\ M1.target = M1.current
  /\ ~M1.moving

(* C4: during a move whose distance is below ACCEL_MIN_STEPS the set_speed *)
(* read by the frequency gate equals min_speed, at every step of the move. *)
C4_ShortMoveAtMinSpeed ==
  (M1.moving /\ M1.target # M1.current /\ M1.distance < ACCEL_MIN_STEPS)
    => M1.m_set_speed = M1.m_min_speed

(* C6: outside critical sections, while target != current,                 *)
(* distance == relative + |target - current| (so relative <= distance).    *)
C6_DistanceConsistent ==
  M1.target # M1.current
    => /\ M1.distance = M1.relative + AbsDiff(M1.target, M1.current)
       /\ M1.relative <= M1.distance

C6_Witness ==
  /\ last = "tick_step"
  /\ M1.moving
  /\ M1.relative > 1
  /\ M1.target # M1.current

---------------------------------------------------------------------------
(* C19: from the return of halt() until the next move() call no timer tick *)
(* asks the pulse emitter for a pulse and current does not change,         *)
(* whatever ticks, set_target_position and set_speed calls come between.   *)
C19_NoPulseAfterHalt ==
  since.halted
    => /\ ~M1.moving
       /\ M1.current = since.haltedAt
       /\ last \notin {"tick_step", "tick_refused"}

\* A move was cancelled half way, a new target was set, and the timer ticked.
C19_Witness ==
  /\ since.halted
  /\ M1.target # M1.current
  /\ M1.current > 0
  /\ last = "tick_sleep"
  /\ prev = "set_target_position"

(* C20: set_current_position(p), called moving or not, leaves              *)
(* current == target == p; afterwards no pulse is emitted and current      *)
(* stays p until set_target_position gives another target and a step       *)
(* follows.                                                                *)
C20_RestPoint ==
  since.rest # -1
    => /\ M1.current = since.rest
       /\ last # "tick_step"
       /\ ~since.retargeted
            => (M1.target = since.rest /\ last # "tick_refused")
       /\ last = "set_current_position" => M1.target = since.rest

\* set_current_position() was called during a move, and the tick that
\* passed both gates afterwards stopped the axis without a pulse.
C20_Witness ==
  /\ since.rest > 0
  /\ ~since.retargeted
  /\ last = "tick_halt"
  /\ ~M1.moving

---------------------------------------------------------------------------
(* C21: a tick on which the pulse emitter declines leaves current, target, *)
(* relative, distance, set_speed and moving as they were, with the axis    *)
(* still moving; as long as no API call intervenes, the axis stays short   *)
(* of its target at the refused position, the next tick that passes both   *)
(* gates attempts the step again instead of halting, and the pulse that is *)
(* accepted then moves current by one from the refused position.           *)
C21_RefusedPulse ==
  [][ /\ nref' = nref + 1 =>
           /\ M1'.current = M1.current
           /\ M1'.target = M1.target
           /\ M1'.relative = M1.relative
           /\ M1'.distance = M1.distance
           /\ M1'.m_set_speed = M1.m_set_speed
           /\ M1'.moving /\ M1.moving
           /\ since'.retry = "pending"
      /\ since'.retry = "pending" =>
           /\ M1'.moving
           /\ M1'.current = since'.refusedAt
           /\ M1'.current # M1'.target
      /\ since.retry = "pending" /\ last' \in TickPassed =>
           last' \in {"tick_step", "tick_refused"}
      /\ since.retry = "pending" /\ last' = "tick_step" =>
           /\ AbsDiff(M1'.current, since.refusedAt) = 1
           /\ AbsDiff(M1'.target, M1'.current) =
                AbsDiff(M1.target, since.refusedAt) - 1
           /\ M1'.relative = M1.relative + 1
           /\ since'.retry = "done"
    ]_vars

\* A pulse was refused and the next pulse, accepted after the frequency gate
\* held the axis back again, stepped from the refused position.
C21_Witness ==
  /\ since.retry = "done"
  /\ nref = 1
  /\ last = "tick_step"
  /\ prev = "tick_freq_gate"
  /\ AbsDiff(M1.current, since.refusedAt) = 1

---------------------------------------------------------------------------
(* C34: set_target_position leaves current, moving and the divider as they *)
(* were; an axis that is not moving is left alone by every tick (no pulse  *)
(* is attempted, nothing changes), whatever its target, and only the       *)
(* return of move() makes it moving.                                       *)
C34_TargetAloneNoMotion ==
  [][ /\ last' = "set_target_position" =>
           /\ M1'.current = M1.current
           /\ M1'.moving = M1.moving
           /\ M1'.m_speed = M1.m_speed
      /\ ~M1.moving /\ last' \in TickBranches =>
           /\ last' = "tick_sleep"
           /\ M1' = M1
           /\ counter' = counter
      /\ ~M1.moving /\ M1'.moving => last' = "move"
    ]_vars

\* A resting axis was given a target elsewhere and was then ticked.
C34_Witness ==
  /\ last = "tick_sleep"
  /\ prev = "set_target_position"
  /\ ~M1.moving
  /\ M1.target # M1.current
  /\ pc = "idle"

---------------------------------------------------------------------------
(* move() specification: the engine specification, with what every move()  *)
(* found and the ticks that preempted it recorded.                         *)

\* Motor 1 as constructed, or as a halt() during the cruise of an earlier
\* move left it: at rest, with m_set_speed at m_max_speed.
MoveStarts ==
  {InitSteppers[1],
   [InitSteppers[1] EXCEPT !.m_set_speed = MOTOR1_MAX_SPEED]}

InitMove ==
  /\ profile = ConfiguredProfile
  /\ \E s \in MoveStarts : stp = [InitSteppers EXCEPT ![1] = s]
  /\ counter = 0
  /\ pc = "idle"
  /\ rd = NoRead
  /\ last = "init"
  /\ prev = "init"
  /\ populated = FALSE
  /\ ncmd = 0
  /\ nref = 0
  /\ since = [NoSince EXCEPT !.moveTicks = 0]
  /\ InputIdle

SpecMove == InitMove /\ [][Next]_vars

\* stepper::move() run without preemption.
move(s) == move_set(move_clear(s))

\* The object and the pass counter after tick() and then move(), and after
\* move() and then tick(), from object s and counter cnt.
TickThenMove(s, cnt, issued) ==
  LET r == tick(s, cnt, issued, profile)
  IN  [s |-> move(r.s), counter |-> r.counter]

MoveThenTick(s, cnt, issued) ==
  LET r == tick(move(s), cnt, issued, profile)
  IN  [s |-> r.s, counter |-> r.counter]

---------------------------------------------------------------------------
(* Planner specification: set_target_position as a function of the         *)
(* distance, for every profile: a first target anywhere in 0..MaxTargetPos *)
(* from either end, then short and long targets in any order.              *)

RestAt(p) == [InitSteppers EXCEPT ![1] = set_current_position(@, p)]

InitTarget ==
  /\ profile \in Profiles
  /\ \E p \in {0, MaxTargetPos} : stp = RestAt(p)
  /\ counter = 0
  /\ pc = "idle"
  /\ rd = NoRead
  /\ last = "init"
  /\ prev = "init"
  /\ populated = FALSE
  /\ ncmd = 0
  /\ nref = 0
  /\ since = NoSince
  /\ InputIdle

\* Distances of the targets that follow the first one: every short one, the
\* ones around 2 * ACCEL_DURATION, and 300 and 600.
RetargetDistances ==
  (0..PlanShort) \cup {300, 600}
    \cup ((2 * ACCEL_DURATION - PlanLong)..(2 * ACCEL_DURATION + PlanLong))

Retargets ==
  {t \in 0..MaxTargetPos : AbsDiff(M1.current, t) \in RetargetDistances}

NextTarget ==
  \/ /\ ~populated
     /\ \E t \in 0..MaxTargetPos : SetTargetPosition(1, t)
     /\ UNCHANGED ncmd
  \/ /\ populated
     /\ \E t \in Retargets : SetTargetPosition(1, t)
     /\ UNCHANGED ncmd

SpecTarget == InitTarget /\ [][NextTarget]_vars

(* C5: after at least one set_target_position call (long and short moves   *)
(* mixed), ease_in <= ease_out <= distance.                                *)
(* As stated this fails: a target closer than ACCEL_MIN_STEPS leaves the   *)
(* ease fields of the previous, longer move in place.                      *)
C5_EaseOrderedOncePopulated ==
  populated => (M1.easein <= M1.easeout /\ M1.easeout <= M1.distance)

(* C5 (amended): ease_in <= ease_out <= distance in every state whose      *)
(* distance is at least ACCEL_MIN_STEPS, i.e. whenever the planner reads   *)
(* the ease fields.                                                        *)
C5_EaseOrderedWhenUsed ==
  M1.distance >= ACCEL_MIN_STEPS
    => (M1.easein <= M1.easeout /\ M1.easeout <= M1.distance)

C5_Witness ==
  /\ populated
  /\ profile = "trapezoid"
  /\ M1.distance > 2 * ACCEL_DURATION
  /\ M1.easein < M1.easeout
  /\ M1.easeout < M1.distance

(* C9: for trapezoid and smoothstep and every distance >= ACCEL_MIN_STEPS, *)
(* ease_in == ease_out == floor(distance / 2) when distance is below       *)
(* 2 * ACCEL_DURATION, else ease_in == ACCEL_DURATION and                  *)
(* ease_out == distance - ACCEL_DURATION (300 gives 150/150, 600 gives     *)
(* 250/350).                                                               *)
C9_PhaseBoundaries ==
  (profile \in {"trapezoid", "smoothstep"} /\ M1.distance >= ACCEL_MIN_STEPS)
    => /\ M1.distance < 2 * ACCEL_DURATION
            => (M1.easein = M1.distance \div 2 /\ M1.easeout = M1.easein)
       /\ M1.distance >= 2 * ACCEL_DURATION
            => (M1.easein = ACCEL_DURATION
                /\ M1.easeout = M1.distance - ACCEL_DURATION)
       /\ M1.distance = 300 => (M1.easein = 150 /\ M1.easeout = 150)
       /\ M1.distance = 600 => (M1.easein = 250 /\ M1.easeout = 350)

C9_Witness ==
  /\ last = "set_target_position"
  /\ profile = "smoothstep"
  /\ M1.distance = 600
  /\ M1.easein = 250
  /\ M1.easeout = 350

---------------------------------------------------------------------------
(* Step specification: an axis resting at or near either end of the        *)
(* unsigned position range, commanded to targets within StepSpan of where  *)
(* it is (also while it moves), with pulses issued or refused.             *)

StepEnds == {0, StepSpan, TravelEnd - StepSpan, TravelEnd}

StepTargets(c) == {t \in StepEnds \cup {c} : AbsDiff(t, c) <= StepSpan}

InitStep ==
  /\ profile = ConfiguredProfile
  /\ \E p \in StepEnds : stp = RestAt(p)
  /\ counter = 0
  /\ pc = "idle"
  /\ rd = NoRead
  /\ last = "init"
  /\ prev = "init"
  /\ populated = FALSE
  /\ ncmd = 0
  /\ nref = 0
  /\ since = NoSince
  /\ InputIdle

NextStep ==
  \/ \E t \in StepTargets(M1.current) : Budgeted(SetTargetPosition(1, t))
  \/ Budgeted(MoveBegin(1))
  \/ MoveEnd(1)
  \/ TickIssued
  \/ TickRefused

SpecStep == InitStep /\ [][NextStep]_vars

(* C23: every confirmed pulse changes current by exactly 1 toward target   *)
(* and increments relative by exactly 1; no tick increases                 *)
(* |target - current| or takes current past target; current stays within   *)
(* the unsigned range, with no decrement at 0 and no increment at the      *)
(* maximum; and a move that runs from set_target_position and move() to    *)
(* its halt with no further command and no refusal has emitted exactly     *)
(* `distance` pulses and stands on its target.                             *)
C23_StepEffect ==
  [][ /\ last' = "tick_step" =>
           /\ AbsDiff(M1'.current, M1.current) = 1
           /\ AbsDiff(M1'.target, M1'.current) =
                AbsDiff(M1.target, M1.current) - 1
           /\ M1'.relative = M1.relative + 1
           /\ M1'.target = M1.target
      /\ last' \in TickBranches =>
           /\ AbsDiff(M1'.target, M1'.current) <=
                AbsDiff(M1.target, M1.current)
           /\ M1.current <= M1.target => M1'.current <= M1'.target
           /\ M1.current >= M1.target => M1'.current >= M1'.target
           /\ M1.current = 0 => M1'.current >= M1.current
           /\ M1.current = TravelEnd => M1'.current <= M1.current
      /\ 0 <= M1'.current /\ M1'.current <= TravelEnd
      /\ last' = "tick_halt" /\ ncmd' = 2 /\ nref' = 0 =>
           /\ M1'.relative = M1'.distance
           /\ M1'.current = M1'.target
    ]_vars

\* An uninterrupted move of StepSpan steps has ended on the maximum position.
C23_Witness ==
  /\ last = "tick_halt"
  /\ ncmd = 2
  /\ nref = 0
  /\ M1.current = TravelEnd
  /\ M1.relative = StepSpan
  /\ M1.distance = StepSpan

---------------------------------------------------------------------------
(* Single-move specifications: from rest, one set_target_position, one     *)
(* move(), then only timer ticks whose pulses are all issued.              *)

OneSetTarget(T) ==
  /\ ncmd = 0
  /\ \E t \in T : SetTargetPosition(1, t)
  /\ ncmd' = 1

OneMoveBegin ==
  /\ ncmd = 1
  /\ MoveBegin(1)
  /\ ncmd' = 2

\* Fresh moves of every short distance and of distances around
\* 2 * ACCEL_DURATION, upwards and downwards, under every profile.
PlanMax == 2 * ACCEL_DURATION + PlanLong

PlanTargets == (0..PlanShort) \cup ((PlanMax - 2 * PlanLong)..PlanMax)

InitPlan ==
  /\ profile \in Profiles
  /\ \E p \in {0, PlanMax} : stp = RestAt(p)
  /\ counter = 0
  /\ pc = "idle"
  /\ rd = NoRead
  /\ last = "init"
  /\ prev = "init"
  /\ populated = FALSE
  /\ ncmd = 0
  /\ nref = 0
  /\ since = NoSince
  /\ InputIdle

NextPlan ==
  \/ OneSetTarget(PlanTargets)
  \/ OneMoveBegin
  \/ MoveEnd(1)
  \/ TickIssued

SpecPlan == InitPlan /\ [][NextPlan]_vars

(* C8: after every step set_speed is within [min_speed, max_speed], for    *)
(* every profile and every reachable distance/relative combination, and    *)
(* the normalized progress f is within [0, 1].                             *)
C8_SetSpeedInRange ==
  last = "tick_step"
    => /\ M1.m_min_speed <= M1.m_set_speed
       /\ M1.m_set_speed <= M1.m_max_speed
       /\ M1.distance >= ACCEL_MIN_STEPS
            => (0 <= Progress(M1, profile) /\ Progress(M1, profile) <= FQ)

C8_Witness ==
  /\ last = "tick_step"
  /\ profile = "trapezoid"
  /\ M1.relative > M1.easein
  /\ M1.relative < M1.easeout
  /\ M1.m_set_speed = M1.m_max_speed

\* Ticks from one opening of the frequency gate to the next at planner
\* speed v.
GatePeriod(v) == TIMER0_FREQ \div (2 * v)

GatePasses == {"tick_speed_gate", "tick_step", "tick_refused", "tick_halt"}

(* C27: while the axis moves with planner speed s, a tick finds the        *)
(* frequency gate open exactly when it is the floor(TIMER0_FREQ / (2*s))th *)
(* tick since the gate last opened or since move() cleared the overflow    *)
(* counter, and that tick resets the counter to 0; every earlier tick is   *)
(* held back; a tick that finds the axis not moving leaves the counter     *)
(* alone.                                                                  *)
C27_FrequencyGate ==
  [][ /\ last' \in GatePasses =>
           /\ M1.moving
           /\ since.wait + 1 = GatePeriod(M1.m_set_speed)
           /\ M1'.m_ovf_counter = 0
      /\ last' = "tick_freq_gate" =>
           /\ M1.moving
           /\ since.wait + 1 < GatePeriod(M1.m_set_speed)
           /\ M1'.m_ovf_counter = since'.wait
      /\ last' = "tick_sleep" =>
           /\ ~M1.moving
           /\ M1'.m_ovf_counter = M1.m_ovf_counter
      /\ last' = "move_clear" => M1'.m_ovf_counter = 0
    ]_vars

\* On an acceleration ramp the gate has opened on the third tick.
C27_Witness ==
  /\ last = "tick_step"
  /\ prev = "tick_freq_gate"
  /\ since.period = 3
  /\ M1.m_ovf_counter = 0
  /\ M1.relative < M1.easein

\* Convergence: any rest position, divider, pass-counter value and planner
\* speed the axis may have been left with.
LiveStarts == {0, LiveSpan}

LiveTargets == {0, 2, LiveSpan}

LiveSpeeds == {2, 7, 600}

LiveCounters == {0, 1, CounterMod - 1}

LiveSetSpeeds ==
  {MOTOR1_MIN_SPEED,
   lerp(MOTOR1_MIN_SPEED, MOTOR1_MAX_SPEED, map(1, ACCEL_DURATION))}

\* The rest states of the convergence specification, with history h.
LiveInit(h) ==
  /\ profile = ConfiguredProfile
  /\ \E p \in LiveStarts, v \in LiveSpeeds, ss \in LiveSetSpeeds :
       stp = [RestAt(p) EXCEPT ![1].m_speed = v, ![1].m_set_speed = ss]
  /\ counter \in LiveCounters
  /\ pc = "idle"
  /\ rd = NoRead
  /\ last = "init"
  /\ prev = "init"
  /\ populated = FALSE
  /\ ncmd = 0
  /\ nref = 0
  /\ since = h
  /\ InputIdle

InitLive == LiveInit(NoSince)

NextLive ==
  \/ OneSetTarget(LiveTargets)
  \/ OneMoveBegin
  \/ MoveEnd(1)
  \/ TickIssued

\* The timer interrupt keeps firing and the main loop runs move() to its end.
SpecLive ==
  /\ InitLive
  /\ [][NextLive]_vars
  /\ WF_vars(TickIssued)
  /\ WF_vars(MoveEnd(1))

(* C1: after set_target_position and move(), with a divider >= 2, an       *)
(* emitter that never refuses and no further command, the ticks eventually *)
(* reach current == target with moving == false, and the axis stays there. *)
C1_TargetConvergence ==
  [](last = "move" => <>[](M1.current = M1.target /\ ~M1.moving))

C1_Witness ==
  /\ last = "tick_halt"
  /\ M1.m_speed = 600
  /\ M1.distance = LiveSpan
  /\ M1.relative = M1.distance
  /\ M1.current = M1.target
  /\ ~M1.moving

---------------------------------------------------------------------------
(* Tick-count specification: the single moves of the convergence           *)
(* specification, with the ticks of each move counted.                     *)

InitCount == LiveInit([NoSince EXCEPT !.ticks = 0])

SpecCount == InitCount /\ [][NextLive]_vars

Min(a, b) == IF a < b THEN a ELSE b

\* Timer ticks per pass of the frequency gate at the slowest planner speed.
SlowestGate == Max(1, TIMER0_FREQ \div (2 * MOTOR1_MIN_SPEED))

\* Passes of the frequency gate between two passes of the speed gate, at most.
SpeedGatePeriod(s) == Min(s.m_speed \div 2, CounterMod)

(* C22: with the emitter never refusing, the number of scheduler ticks     *)
(* from move() until moving becomes false is at most the move's distance.  *)
(* As stated this fails: the tick that sets moving to false comes after    *)
(* the last pulse, and the two gates let only some of the ticks through.   *)
C22_TicksEqualDistance ==
  last = "tick_halt" => since.ticks <= M1.distance

(* C22 (amended): with the emitter never refusing and no command during    *)
(* the move, the move emits exactly `distance` pulses, one per tick at     *)
(* most, and moving becomes false on a later tick that passes both gates:  *)
(* the ticks from move() until then number at least distance + 1 and at    *)
(* most (distance + 1) gate periods at the slowest planner speed.          *)
C22_TickBound ==
  /\ M1.moving /\ last # "move_clear" => M1.relative <= since.ticks
  /\ last = "tick_halt" =>
       /\ M1.relative = M1.distance
       /\ since.ticks >= M1.distance + 1
       /\ since.ticks <=
            (M1.distance + 1) * SlowestGate * SpeedGatePeriod(M1)

C22_Witness ==
  /\ last = "tick_halt"
  /\ M1.distance = LiveSpan
  /\ M1.m_speed = 7
  /\ since.ticks > LiveSpan * SlowestGate

(* C25: with a constant divider d >= 2 and a single moving axis, every     *)
(* step attempt comes exactly floor(d/2) passes of the frequency gate      *)
(* after the previous one, also across the wraparound of the 8-bit pass    *)
(* counter and when floor(d/2) does not divide 256.                        *)
C25_Cadence ==
  since.gap # 0 => since.gap = M1.m_speed \div 2

---------------------------------------------------------------------------
(* Two-axis specification: both axes rest with a target PairSpan steps     *)
(* away; the main loop starts and stops them, and every timer interrupt    *)
(* runs tick() of motor 1 and then tick() of motor 2.                      *)

\* The dividers the host has set: motor 1 steps on every second pass, motor 2
\* on every pass.
PairSpeeds(m) == IF m = 1 THEN {4} ELSE {2}

\* An axis with divider v that was halted while it cruised (m_set_speed at
\* m_max_speed) and then given a target PairSpan steps away.
PairRest(v) ==
  set_target_position(
    [set_speed(InitSteppers[1], v) EXCEPT !.m_set_speed = MOTOR1_MAX_SPEED],
    PairSpan, ConfiguredProfile)

InitPair ==
  /\ profile = ConfiguredProfile
  /\ \E v1 \in PairSpeeds(1), v2 \in PairSpeeds(2) :
       stp = [m \in Motors |-> IF m = 1 THEN PairRest(v1) ELSE PairRest(v2)]
  /\ counter = 0
  /\ pc = "idle"
  /\ rd = NoRead
  /\ last = "init"
  /\ prev = "init"
  /\ populated = TRUE
  /\ ncmd = 0
  /\ nref = 0
  /\ since = NoSince
  /\ InputIdle

\* The interrupt is between tick() of motor 1 and tick() of motor 2.
InIsr == last \in TickBranches

\* tick() of motor 1, first in the interrupt.
IsrFirst == ~InIsr /\ TickIssued

\* tick() of motor 2, which ends the interrupt.
IsrSecond ==
  /\ InIsr
  /\ \E r \in {tick(stp[2], counter, TRUE, profile)} :
       /\ stp' = [stp EXCEPT ![2] = r.s]
       /\ counter' = r.counter
  /\ last' = "tick_other"
  /\ UNCHANGED <<profile, pc, rd, prev, populated, ncmd, nref, since>>
  /\ UNCHANGED inputVars

NextPair ==
  \/ IsrFirst
  \/ IsrSecond
  \/ \E m \in Motors : ~InIsr /\ Budgeted(MoveBegin(m))
  \/ \E m \in Motors : ~InIsr /\ MoveEnd(m)
  \/ ~InIsr /\ Budgeted(Halt(2))

SpecPair == InitPair /\ [][NextPair]_vars

(* C26: the ticks on which motor 1 attempts a step depend on its own state *)
(* and commands only: whatever tick() of motor 2 does (sleep, hold at a    *)
(* gate, step or halt), the next tick() of motor 1 takes the same branch   *)
(* and leaves motor 1 in the same state as if motor 2 had not been ticked. *)
C26_AxisIndependence ==
  [][ last' = "tick_other" =>
        /\ stp'[1] = stp[1]
        /\ tick(stp'[1], counter', TRUE, profile).branch =
             tick(stp[1], counter, TRUE, profile).branch
        /\ tick(stp'[1], counter', TRUE, profile).s =
             tick(stp[1], counter, TRUE, profile).s
    ]_vars

---------------------------------------------------------------------------
(* Getter specification: get_current_position() / get_target_position()    *)
(* load a uint32_t one byte at a time with interrupts enabled, while a     *)
(* move carries current across a byte boundary.                            *)

Pow(b, n) == IF n = 0 THEN 1 ELSE IF n = 1 THEN b
             ELSE IF n = 2 THEN b * b ELSE b * b * b

ByteOf(v, i) == (v \div Pow(ByteMod, i)) % ByteMod

\* The byte a load fetches as its k-th (k from 0), for either order the
\* compiler may emit.
ByteIndex(order, k) ==
  IF order = "lsb_first" THEN k ELSE PositionBytes - 1 - k

Assemble(bytes) ==
  bytes[1] + ByteMod * bytes[2] + ByteMod * ByteMod * bytes[3]
    + ByteMod * ByteMod * ByteMod * bytes[4]

GetBegin(m, field, order) ==
  /\ pc = "idle"
  /\ pc' = "read"
  /\ rd' = [field |-> field, order |-> order, idx |-> 0,
            bytes |-> <<0, 0, 0, 0>>, held |-> {stp[m][field]},
            ticks |-> 0, value |-> 0]
  /\ prev' = last
  /\ last' = "get_begin"
  /\ UNCHANGED <<profile, stp, counter, populated, ncmd, nref, since>>
  /\ UNCHANGED inputVars

GetByte(m) ==
  /\ pc = "read"
  /\ LET i == ByteIndex(rd.order, rd.idx)
         b == [rd.bytes EXCEPT ![i + 1] = ByteOf(stp[m][rd.field], i)]
         done == rd.idx + 1 = PositionBytes
     IN  /\ rd' = [rd EXCEPT !.idx = @ + 1, !.bytes = b,
                             !.value = IF done THEN Assemble(b) ELSE 0]
         /\ pc' = IF done THEN "idle" ELSE "read"
         /\ prev' = last
         /\ last' = IF done THEN "get_" \o rd.field ELSE "get_byte"
  /\ UNCHANGED <<profile, stp, counter, populated, ncmd, nref, since>>
  /\ UNCHANGED inputVars

ReadStart == ByteMod - 2

ReadTargets == {ReadStart + ReadSpan}

InitRead ==
  /\ profile = ConfiguredProfile
  /\ stp = RestAt(ReadStart)
  /\ counter = 0
  /\ pc = "idle"
  /\ rd = NoRead
  /\ last = "init"
  /\ prev = "init"
  /\ populated = FALSE
  /\ ncmd = 0
  /\ nref = 0
  /\ since = NoSince
  /\ InputIdle

\* The four loads of a getter take far less than one timer period: at most
\* one interrupt falls into a call.
NextRead ==
  \/ OneSetTarget(ReadTargets)
  \/ OneMoveBegin
  \/ MoveEnd(1)
  \/ (pc = "read" => rd.ticks = 0) /\ TickIssued
  \/ \E f \in {"current", "target"}, o \in {"lsb_first", "msb_first"} :
       GetBegin(1, f, o)
  \/ GetByte(1)

SpecRead == InitRead /\ [][NextRead]_vars

(* C7: the value get_current_position() or get_target_position() returns   *)
(* is a value the member held at some instant during the call, whatever    *)
(* instruction boundary the timer tick preempts the load at.               *)
C7_NoTornRead ==
  last \in {"get_current", "get_target"} => rd.value \in rd.held

---------------------------------------------------------------------------
(* Decoder specification: ResKeybd::decode applied to every raw sample.    *)

\* enum action of class ResKeybd.
Actions ==
  {"NOTHING", "SLOWEST_FWD", "SLOWEST_BWD", "SLOW_FWD", "SLOW_BWD",
   "FAST_FWD", "FAST_BWD", "ULTRA_FWD", "ULTRA_BWD", "MOTOR_SWITCH"}

\* ResKeybd::button_values: start of interval, end of interval, action.
button_values ==
  << <<900, 990, "NOTHING">>,
     <<800, 899, "MOTOR_SWITCH">>,
     <<690, 799, "FAST_FWD">>,
     <<400, 500, "ULTRA_FWD">>,
     <<111, 210, "FAST_BWD">>,
     << 30, 110, "ULTRA_BWD">>,
     <<600, 689, "SLOWEST_FWD">>,
     <<330, 399, "SLOW_FWD">>,
     <<501, 600, "SLOWEST_BWD">>,
     <<211, 350, "SLOW_BWD">> >>

\* The loop of ResKeybd::decode from entry i of `table` on.
RECURSIVE decode_from(_, _, _)
decode_from(table, i, value) ==
  IF i > Len(table) THEN "NOTHING"
  ELSE IF table[i][1] <= value /\ value <= table[i][2] THEN table[i][3]
  ELSE decode_from(table, i + 1, value)

RECURSIVE decode_last(_, _, _)
decode_last(table, i, value) ==
  IF i < 1 THEN "NOTHING"
  ELSE IF table[i][1] <= value /\ value <= table[i][2] THEN table[i][3]
  ELSE decode_last(table, i - 1, value)

decode_lastmatch(value) == decode_last(button_values, Len(button_values), value)

\* ResKeybd::decode(value)
decode(value) == decode_from(button_values, 1, value)

\* One conversion is decoded.
Decode(value) ==
  /\ obs' = [NoPoll EXCEPT !.value = value, !.act = decode(value)]
  /\ prev' = last
  /\ last' = "decode"
  /\ UNCHANGED <<profile, stp, counter, pc, rd, populated, ncmd, nref, since,
                 threshold, deb, run, runTrig, hist, diff, kbd>>

NextDecode == \E value \in 0..MaxSample : Decode(value)

SpecDecode == Init /\ [][NextDecode]_vars

\* The table entries that contain `value`.
Matching(value) ==
  {i \in 1..Len(button_values) :
     button_values[i][1] <= value /\ value <= button_values[i][2]}

(* C17: for every raw sample, decode returns the action of the first       *)
(* table entry whose interval contains the sample, and NOTHING when none   *)
(* does; 850 decodes to MOTOR_SWITCH, 950 to NOTHING and 5 to NOTHING.     *)
C17_DecoderFirstMatch ==
  last = "decode"
    => /\ obs.act =
            IF Matching(obs.value) = {} THEN "NOTHING"
            ELSE button_values[CHOOSE i \in Matching(obs.value) :
                                 \A j \in Matching(obs.value) : i <= j][3]
       /\ obs.value = 850 => obs.act = "MOTOR_SWITCH"
       /\ obs.value = 950 => obs.act = "NOTHING"
       /\ obs.value = 5 => obs.act = "NOTHING"

\* A sample two entries contain, decoded as the first of them.
C17_Witness ==
  /\ last = "decode"
  /\ obs.value = 600
  /\ Cardinality(Matching(obs.value)) = 2
  /\ obs.act = "SLOWEST_FWD"

(* C18: the intervals of the button table are pairwise disjoint, so the    *)
(* decoded action of a sample does not depend on the order of the entries. *)
(* This fails: 600 lies in the intervals of SLOWEST_FWD and SLOWEST_BWD,   *)
(* and 330..350 in those of SLOW_FWD and SLOW_BWD.                         *)
C18_OrderIndependent ==
  last = "decode"
    => /\ Cardinality(Matching(obs.value)) <= 1
       /\ obs.act = decode_last(button_values, Len(button_values), obs.value)

---------------------------------------------------------------------------
(* Debounce specification: ResKeybd::debounce applied to every sequence of *)
(* raw samples of one button, for every threshold up to MaxThreshold.      *)

debounce_early(current_state, previous_state, cnt, thr) ==
  IF current_state = previous_state
  THEN [current_state |-> current_state, previous_state |-> previous_state,
        trigger_event |-> FALSE, counter |-> 0]
  ELSE IF cnt + 1 < thr
  THEN [current_state |-> previous_state, previous_state |-> previous_state,
        trigger_event |-> FALSE, counter |-> cnt + 1]
  ELSE [current_state |-> current_state, previous_state |-> current_state,
        trigger_event |-> TRUE, counter |-> 0]

debounce_noreset(current_state, previous_state, cnt, thr) ==
  IF current_state = previous_state
  THEN [current_state |-> current_state, previous_state |-> previous_state,
        trigger_event |-> FALSE, counter |-> cnt]
  ELSE IF cnt < thr
  THEN [current_state |-> previous_state, previous_state |-> previous_state,
        trigger_event |-> FALSE, counter |-> cnt + 1]
  ELSE [current_state |-> current_state, previous_state |-> current_state,
        trigger_event |-> TRUE, counter |-> 0]

\* ResKeybd::debounce: the values of (current_state, previous_state,
\* trigger_event, counter) when the call returns.
debounce_sticky(current_state, previous_state, cnt, thr) ==
  IF current_state = previous_state
  THEN [current_state |-> current_state, previous_state |-> previous_state,
        trigger_event |-> FALSE, counter |-> 0]
  ELSE IF cnt < thr
  THEN [current_state |-> previous_state, previous_state |-> previous_state,
        trigger_event |-> FALSE, counter |-> cnt + 1]
  ELSE [current_state |-> current_state, previous_state |-> previous_state,
        trigger_event |-> TRUE, counter |-> 0]

debounce_raw(current_state, previous_state, cnt, thr) ==
  IF current_state = previous_state
  THEN [current_state |-> current_state, previous_state |-> previous_state,
        trigger_event |-> FALSE, counter |-> 0]
  ELSE IF cnt < thr
  THEN [current_state |-> current_state, previous_state |-> previous_state,
        trigger_event |-> FALSE, counter |-> cnt + 1]
  ELSE [current_state |-> current_state, previous_state |-> current_state,
        trigger_event |-> TRUE, counter |-> 0]

debounce(current_state, previous_state, cnt, thr) ==
  IF current_state = previous_state
  THEN [current_state |-> current_state, previous_state |-> previous_state,
        trigger_event |-> FALSE, counter |-> 0]
  ELSE IF cnt < thr
  THEN [current_state |-> previous_state, previous_state |-> previous_state,
        trigger_event |-> FALSE, counter |-> cnt + 1]
  ELSE [current_state |-> current_state, previous_state |-> current_state,
        trigger_event |-> TRUE, counter |-> 0]

InitDebounce ==
  /\ profile = ConfiguredProfile
  /\ stp = InitSteppers
  /\ counter = 0
  /\ pc = "idle"
  /\ rd = NoRead
  /\ last = "init"
  /\ prev = "init"
  /\ populated = FALSE
  /\ ncmd = 0
  /\ nref = 0
  /\ since = NoSince
  /\ threshold \in 1..MaxThreshold
  /\ deb = NewDebounce
  /\ run = 0
  /\ runTrig = 0
  /\ hist = <<>>
  /\ KeybdIdle

\* The history of runs of samples that differ from the stable value: a run
\* starts with a sample that differs from previous_state (the stable value),
\* goes on while the samples differ from that stable value, and is closed by
\* the first sample equal to it.  d is what debounce returned for `raw`.
DiffAfter(raw, d) ==
  LET inRun == diff.n > 0 /\ ~diff.closed
      t == IF d.trigger_event THEN 1 ELSE 0
  IN  IF inRun /\ raw # diff.stable
      THEN [diff EXCEPT !.n = @ + 1, !.trig = @ + t,
                        !.reported = @ /\ d.current_state = diff.stable]
      ELSE IF inRun /\ diff.n < threshold
      THEN [diff EXCEPT !.closed = TRUE, !.trig = @ + t,
                        !.reported = @ /\ d.current_state = diff.stable]
      ELSE IF raw # deb.previous_state
      THEN [n |-> 1, stable |-> deb.previous_state, trig |-> t,
            reported |-> d.current_state = deb.previous_state,
            closed |-> FALSE]
      ELSE NoDiff

\* One poll observes the raw value `raw` of the button and debounces it.
Observe(raw) ==
  /\ Len(hist) < MaxSamples
  /\ LET d == debounce(raw, deb.previous_state, deb.counter, threshold)
         inRun == raw /\ (run > 0 \/ (~deb.previous_state /\ deb.counter = 0))
     IN  /\ deb' = d
         /\ diff' = DiffAfter(raw, d)
         /\ run' = IF inRun THEN run + 1 ELSE 0
         /\ runTrig' = IF inRun
                       THEN (IF run > 0 THEN runTrig ELSE 0)
                              + (IF d.trigger_event THEN 1 ELSE 0)
                       ELSE 0
  /\ hist' = Append(hist, raw)
  /\ prev' = last
  /\ last' = "debounce"
  /\ UNCHANGED <<profile, stp, counter, pc, rd, populated, ncmd, nref, since,
                 threshold, kbd, obs>>

NextDebounce == \E raw \in BOOLEAN : Observe(raw)

SpecDebounce == InitDebounce /\ [][NextDebounce]_vars

(* C10: from previous_state == false and counter == 0, `threshold`         *)
(* consecutive true samples fire exactly one trigger and flip              *)
(* previous_state to true.                                                 *)
(* As stated this fails: the first `threshold` samples only count.         *)
C10_TriggerWithinThreshold ==
  run = threshold => (runTrig = 1 /\ deb.previous_state)

(* C10 (amended): from previous_state == false and counter == 0, the first *)
(* `threshold` consecutive true samples fire no trigger and are reported   *)
(* as false; sample threshold + 1 fires the trigger and flips              *)
(* previous_state to true, and it is the only trigger of the run.          *)
C10_TriggerAfterThreshold ==
  /\ (run >= 1 /\ run <= threshold)
       => /\ runTrig = 0
          /\ ~deb.trigger_event
          /\ ~deb.previous_state
          /\ ~deb.current_state
          /\ deb.counter = run
  /\ run = threshold + 1
       => (deb.trigger_event /\ deb.previous_state /\ deb.current_state)
  /\ run > threshold => runTrig = 1

C10_Witness ==
  /\ run = threshold + 1
  /\ runTrig = 1
  /\ deb.trigger_event
  /\ deb.previous_state

(* C11: a run of fewer than `threshold` consecutive samples that differ    *)
(* from previous_state, followed by a sample equal to previous_state,      *)
(* fires no trigger, leaves previous_state unchanged, reports the stable   *)
(* value on every one of those samples and resets the counter to 0.        *)
C11_ShortRunSuppressed ==
  (diff.closed /\ diff.n >= 1 /\ diff.n < threshold)
    => /\ diff.trig = 0
       /\ diff.reported
       /\ deb.previous_state = diff.stable
       /\ deb.current_state = diff.stable
       /\ ~deb.trigger_event
       /\ deb.counter = 0

\* A bounce during a confirmed press: two false samples, then true again.
C11_Witness ==
  /\ diff.closed
  /\ diff.n = 2
  /\ diff.stable
  /\ threshold = 3
  /\ deb.counter = 0

\* What the calls of debounce for the samples h[i..] do, from the arguments
\* d the previous call left: per call, whether it set trigger_event,
\* whether it flipped previous_state, the previous_state it left and the raw
\* sample it was given.
RECURSIVE TriggerLog(_, _, _, _)
TriggerLog(h, i, d, thr) ==
  IF i > Len(h) THEN <<>>
  ELSE LET r == debounce(h[i], d.previous_state, d.counter, thr)
       IN  <<[trigger |-> r.trigger_event,
              flipped |-> r.previous_state # d.previous_state,
              state |-> r.previous_state,
              raw |-> h[i]]>> \o TriggerLog(h, i + 1, r, thr)

(* C30: for every sample sequence, a call of debounce sets trigger_event   *)
(* exactly when it flips previous_state; the first trigger of a button is  *)
(* a rising one and successive triggers alternate between rising and       *)
(* falling; and while the raw value stays what it was at a trigger, no     *)
(* further trigger fires.                                                  *)
C30_OneTriggerPerTransition ==
  LET log == TriggerLog(hist, 1, NewDebounce, threshold)
      n == Len(log)
      Fired == {i \in 1..n : log[i].trigger}
  IN  /\ n = Len(hist)
      /\ n > 0 => /\ log[n].trigger = deb.trigger_event
                  /\ log[n].state = deb.previous_state
      /\ \A i \in 1..n : log[i].trigger = log[i].flipped
      /\ \A j \in Fired :
           IF \E i \in Fired : i < j
           THEN LET i == CHOOSE k \in Fired :
                           k < j /\ \A l \in Fired : l < j => l <= k
                IN  log[i].state # log[j].state
           ELSE log[j].state
      /\ \A i \in Fired : \A j \in (i + 1)..n :
           (\A k \in i..j : log[k].raw = log[i].raw) => ~log[j].trigger

\* A falling trigger has fired, after the rising one of the same button, and
\* the released button was sampled once more without a trigger.
C30_Witness ==
  /\ ~deb.previous_state
  /\ ~deb.trigger_event
  /\ last = "debounce"
  /\ Len(hist) >= 5
  /\ ~hist[Len(hist)]
  /\ LET log == TriggerLog(hist, 1, NewDebounce, threshold)
     IN  log[Len(hist) - 1].trigger /\ ~log[Len(hist) - 1].state

(* C31: after every call of debounce, for every sample sequence, the       *)
(* reported state (the in/out current_state) equals the stored             *)
(* previous_state, and counter is within 0..threshold.                     *)
C31_DebounceRecord ==
  last = "debounce"
    => /\ deb.current_state = deb.previous_state
       /\ deb.counter >= 0
       /\ deb.counter <= threshold

\* The pressed button was sampled `threshold` times: the counter stands at
\* the threshold and the press is still reported as not confirmed.
C31_Witness ==
  /\ last = "debounce"
  /\ hist # <<>>
  /\ hist[Len(hist)]
  /\ ~deb.current_state
  /\ ~deb.previous_state
  /\ deb.counter = threshold
  /\ threshold = MaxThreshold

---------------------------------------------------------------------------
(* Keyboard specification: ResKeybd::tick polls the resistor keyboard from *)
(* the main loop while the timer interrupt ticks both axes.  The           *)
(* api::motor_* calls are the member functions of the addressed stepper.   *)
(* A poll is one step: an interrupt inside it finds either the axis not    *)
(* moving (and returns) or the same state it would find just before or     *)
(* after the poll.                                                         *)

FwdActions == {"SLOWEST_FWD", "SLOW_FWD", "FAST_FWD", "ULTRA_FWD"}

BwdActions == {"SLOWEST_BWD", "SLOW_BWD", "FAST_BWD", "ULTRA_BWD"}

\* new_motor_speed as the switch over the decoded action sets it.
new_motor_speed(act, m) ==
  LET lo == IF m = 1 THEN MOTOR1_MIN_SPEED ELSE MOTOR2_MIN_SPEED
      hi == IF m = 1 THEN MOTOR1_MAX_SPEED ELSE MOTOR2_MAX_SPEED
  IN  CASE act \in {"SLOWEST_FWD", "SLOWEST_BWD"} -> lo
        [] act \in {"SLOW_FWD", "SLOW_BWD"} -> lo + (hi - lo) \div 3
        [] act \in {"FAST_FWD", "FAST_BWD"} -> lo + ((hi - lo) * 2) \div 3
        [] act \in {"ULTRA_FWD", "ULTRA_BWD"} -> hi
        [] OTHER -> 0

\* map(x, in_min, in_max, out_min, out_max) for x within in_min..in_max.
map_range(x, in_min, in_max, out_min, out_max) ==
  ((x - in_min) * (out_max - out_min)) \div (in_max - in_min) + out_min

\* The divider map() yields for new_motor_speed == 0 (a suppressed release:
\* no direction decoded while the debounced state is still asserted).  The
\* input is below in_min and the result depends on the arithmetic of map():
\* 65535 with signed, 63550 with unsigned 32-bit operands.
UnmappedSpeeds == {65535, 63550}

OtherMotor(m) == IF m = 1 THEN 2 ELSE 1

switch_allowed_unguarded(switch_state, switch_trigger, s) ==
  switch_state /\ switch_trigger

switch_allowed_level(switch_state, switch_trigger, s) ==
  switch_state /\ ~is_moving(s)

\* if(switch_state && switch_trigger && ! api::motor_is_moving(motor))
switch_allowed(switch_state, switch_trigger, s) ==
  switch_state /\ switch_trigger /\ ~is_moving(s)

\* The API call c is among the calls a poll made.
Called(c) == \E i \in DOMAIN obs.calls : obs.calls[i] = c

\* ResKeybd::tick() for the conversion `value`; `unk` is the divider map()
\* yields when no speed was decoded.
Poll(value, unk) ==
  /\ pc = "idle"
  /\ \E act \in {decode(value)} :
     \E d1 \in {debounce(act \in FwdActions, kbd.previous_state[1],
                         kbd.counter[1], threshold)},
        d2 \in {debounce(act \in BwdActions, kbd.previous_state[2],
                         kbd.counter[2], threshold)},
        d3 \in {debounce(act = "MOTOR_SWITCH", kbd.previous_state[3],
                         kbd.counter[3], threshold)} :
     LET m == kbd.motor
         speed == new_motor_speed(act, m)
         fwd_state == d1.current_state
         bwd_state == d2.current_state
         pressed == fwd_state \/ bwd_state
         trig == d1.trigger_event \/ d2.trigger_event
         s0 == stp[m]
         old == IF pressed /\ trig THEN get_speed(s0) ELSE kbd.old_motor_speed
         mapped == IF speed >= MOTOR1_MIN_SPEED
                   THEN map_range(speed, MOTOR1_MIN_SPEED, MOTOR1_MAX_SPEED,
                                  2, 64)
                   ELSE unk
         s1 == set_speed(s0, mapped)
         start == ~is_moving(s1)
         s2 == IF start
               THEN move_set(move_clear(
                      set_target_position(
                        s1, IF fwd_state THEN TravelEnd ELSE 0, profile)))
               ELSE s1
         r1 == IF trig THEN set_speed(halt(s0), kbd.old_motor_speed) ELSE s0
         sNew == IF pressed THEN s2 ELSE r1
         sw == ~pressed
                 /\ switch_allowed(d3.current_state, d3.trigger_event, r1)
         calls == IF pressed
                  THEN <<"set_speed">>
                         \o (IF start THEN <<"set_target_position", "move">>
                             ELSE <<>>)
                  ELSE IF trig THEN <<"halt", "set_speed">> ELSE <<>>
         first == pressed /\ obs.ep # "held"
     IN  /\ stp' = [stp EXCEPT ![m] = sNew]
         /\ kbd' = [motor |-> IF sw THEN OtherMotor(m) ELSE m,
                    counter |-> <<d1.counter, d2.counter, d3.counter>>,
                    previous_state |-> <<d1.previous_state, d2.previous_state,
                                         d3.previous_state>>,
                    old_motor_speed |-> old]
         /\ obs' =
              [value |-> value, act |-> act,
               state |-> <<fwd_state, bwd_state, d3.current_state>>,
               trigger |-> <<d1.trigger_event, d2.trigger_event,
                             d3.trigger_event>>,
               calls |-> calls, motor0 |-> m, moving0 |-> is_moving(s0),
               ep |-> IF pressed THEN "held"
                      ELSE IF trig THEN "released" ELSE "neutral",
               snap |-> IF first THEN get_speed(s0) ELSE obs.snap,
               ncmd0 |-> IF first THEN ncmd ELSE obs.ncmd0,
               turned |-> IF first THEN FALSE
                          ELSE obs.turned
                                 \/ (d1.trigger_event /\ d2.trigger_event),
               heldPoll |-> /\ obs.ep = "held"
                            /\ ~trig
                            /\ \/ (fwd_state /\ act \in FwdActions)
                               \/ (bwd_state /\ act \in BwdActions),
               refused |-> IF act # "MOTOR_SWITCH" THEN FALSE
                           ELSE IF d3.current_state /\ d3.trigger_event
                           THEN ~sw /\ is_moving(sNew)
                           ELSE obs.refused,
               refMotor |-> IF d3.current_state /\ d3.trigger_event
                            THEN m ELSE obs.refMotor]
  /\ last' = "poll"
  /\ UNCHANGED <<profile, counter, pc, rd, prev, populated, ncmd, nref, since,
                 threshold, deb, run, runTrig, hist, diff>>

\* Positions the keyboard specification lets an axis take.
InReach(p) == p <= KbdReach \/ p >= TravelEnd - KbdReach

\* A timer interrupt for motor m that keeps the axis within reach and the
\* pass counter within KbdPasses.
KbdTick(m) ==
  \E r \in {tick(stp[m], counter, TRUE, profile)} :
    /\ InReach(r.s.current)
    /\ r.counter <= KbdPasses
    /\ stp' = [stp EXCEPT ![m] = r.s]
    /\ counter' = r.counter
    /\ last' = "tick"
    /\ UNCHANGED <<profile, pc, rd, prev, populated, ncmd, nref, since>>
    /\ UNCHANGED inputVars

\* Conversions the keyboard specification samples: no button, slowest
\* forward and slowest backward.
KbdSamples == {0, 650, 550}

\* Where motor 1 rests before the keyboard is touched: one step from the
\* backward extreme, or at the forward extreme.
KbdStarts == {1, TravelEnd}

\* The divider the host has set before the keyboard is touched.
KbdSpeeds == {6}

\* Motor 1 resting at p with divider v.  The host has halted it while it
\* cruised, which left m_set_speed at m_max_speed.
KbdRest(p, v) ==
  [set_speed(set_current_position(InitSteppers[1], p), v)
     EXCEPT !.m_set_speed = MOTOR1_MAX_SPEED]

\* The state before the first poll, with motor 1 in state s1.
KbdInit(s1) ==
  /\ profile = ConfiguredProfile
  /\ stp = [InitSteppers EXCEPT ![1] = s1]
  /\ counter = 0
  /\ pc = "idle"
  /\ rd = NoRead
  /\ last = "init"
  /\ prev = "init"
  /\ populated = FALSE
  /\ ncmd = 0
  /\ nref = 0
  /\ since = NoSince
  /\ threshold \in 1..KbdMaxThreshold
  /\ deb = NewDebounce
  /\ run = 0
  /\ runTrig = 0
  /\ hist = <<>>
  /\ KeybdIdle

InitKeybd == \E p \in KbdStarts, v \in KbdSpeeds : KbdInit(KbdRest(p, v))

NextKeybd ==
  \/ \E value \in KbdSamples, unk \in UnmappedSpeeds : Poll(value, unk)
  \/ \E m \in Motors : KbdTick(m)

SpecKeybd == InitKeybd /\ [][NextKeybd]_vars

---------------------------------------------------------------------------
(* Claims about the direction buttons, checked under SpecKeybd.            *)

(* C12: in a poll in which forward and backward are both confirmed (both   *)
(* debouncers fire a trigger, or both debounced states are asserted) the   *)
(* arbiter issues neither move() nor halt() and leaves the moving flag of  *)
(* the addressed axis unchanged.                                           *)
C12_MutualExclusion ==
  (/\ last = "poll"
   /\ \/ obs.trigger[1] /\ obs.trigger[2]
      \/ obs.state[1] /\ obs.state[2])
    => /\ ~Called("move")
       /\ ~Called("halt")
       /\ stp[obs.motor0].moving = obs.moving0

(* C15: with no host command in between, after the poll that confirms the  *)
(* release of a press that started from neutral, the addressed axis is     *)
(* halted and its divider is the one it had before the first confirmed     *)
(* press, also when the direction was changed without passing neutral.     *)
C15_SpeedRestored ==
  (last = "poll" /\ obs.ep = "released" /\ ncmd = obs.ncmd0)
    => /\ ~stp[obs.motor0].moving
       /\ stp[obs.motor0].m_speed = obs.snap

(* C16: while a direction button stays held after its confirmed press,     *)
(* every later poll refreshes the mapped speed and issues no further       *)
(* move() and no further set_target_position(), wherever the axis is.      *)
C16_NoMoveWhileHeld ==
  (last = "poll" /\ obs.heldPoll /\ ncmd = obs.ncmd0)
    => /\ Called("set_speed")
       /\ ~Called("move")
       /\ ~Called("set_target_position")

(* C24: with only the arbiter issuing commands, whenever the debounced     *)
(* backward state is asserted and the addressed axis is moving its target  *)
(* is 0, and whenever the debounced forward state is asserted and it is    *)
(* moving its target is the maximum position, also after a direct change   *)
(* from a forward to a backward action or back.                            *)
C24_DirectionFollowsButton ==
  /\ obs.state[2] /\ stp[kbd.motor].moving => stp[kbd.motor].target = 0
  /\ obs.state[1] /\ stp[kbd.motor].moving
       => stp[kbd.motor].target = TravelEnd

(* C28: on the poll that confirms a forward (backward) press while the     *)
(* addressed axis is not moving, the arbiter takes the axis's divider as   *)
(* the snapshot, sets the mapped speed, sets target to the maximum         *)
(* position (to 0) and calls move(), in that order: the axis leaves the    *)
(* poll moving, with that target and with the mapped divider.              *)
C28_RisingEdge ==
  [][ \A b \in {1, 2} :
        (/\ last' = "poll"
         /\ obs'.trigger[b] /\ obs'.state[b]
         /\ ~obs'.moving0)
          => LET m == obs'.motor0
             IN  /\ m = kbd.motor
                 /\ kbd'.old_motor_speed = stp[m].m_speed
                 /\ obs'.calls = <<"set_speed", "set_target_position", "move">>
                 /\ stp'[m].m_speed =
                      map_range(new_motor_speed(obs'.act, m),
                                MOTOR1_MIN_SPEED, MOTOR1_MAX_SPEED, 2, 64)
                 /\ stp'[m].target = (IF b = 1 THEN TravelEnd ELSE 0)
                 /\ stp'[m].moving
                 /\ stp'[m].m_ovf_counter = 0
    ]_vars

\* A backward press was confirmed on the resting motor 1, which now moves
\* towards 0 with the divider of the slowest button.
C28_Witness ==
  /\ last = "poll"
  /\ obs.trigger[2] /\ obs.state[2]
  /\ ~obs.moving0
  /\ obs.calls = <<"set_speed", "set_target_position", "move">>
  /\ kbd.old_motor_speed = 6
  /\ stp[1].moving
  /\ stp[1].target = 0
  /\ stp[1].m_speed = 2

C32_NeverBothAsserted ==
  /\ ~(obs.state[1] /\ obs.state[2])
  /\ ~(kbd.previous_state[1] /\ kbd.previous_state[2])

\* The button was changed from forward to backward with no neutral sample:
\* one poll releases forward and confirms backward.
C32_Witness ==
  /\ last = "poll"
  /\ obs.trigger[1] /\ ~obs.state[1]
  /\ obs.trigger[2] /\ obs.state[2]
  /\ threshold = KbdMaxThreshold

---------------------------------------------------------------------------
(* Switch specification: the switch button and the forward button are     *)
(* polled while motor 1 rests or runs a move the host has started.  Polls  *)
(* and timer interrupts keep coming (weak fairness).                       *)

\* No button and the switch button at any time; slowest forward while
\* motor 1 is addressed and the switch button is neither down nor being
\* debounced.
SwitchSamples ==
  {0, 850}
    \cup (IF kbd.motor = 1 /\ ~kbd.previous_state[3] /\ kbd.counter[3] = 0
          THEN {650} ELSE {})

\* Motor 1 one step into a move the host started from p.
HostMoving(p, v) ==
  move_set(move_clear(
    set_target_position(KbdRest(p, v), IF p = 0 THEN 1 ELSE p - 1, profile)))

\* The divider of the host's move.
SwitchSpeeds == {2}

InitSwitch ==
  \E p \in KbdStarts, v \in SwitchSpeeds, going \in BOOLEAN :
    KbdInit(IF going THEN HostMoving(p, v) ELSE KbdRest(p, v))

AnyPoll == \E value \in SwitchSamples, unk \in UnmappedSpeeds : Poll(value, unk)

NextSwitch ==
  \/ AnyPoll
  \/ \E m \in Motors : KbdTick(m)

SpecSwitch ==
  /\ InitSwitch
  /\ [][NextSwitch]_vars
  /\ WF_vars(AnyPoll)
  /\ WF_vars(KbdTick(1))

(* C13: the addressed axis changes only in a poll in which, at the moment  *)
(* of the check, the addressed axis is not moving; a confirmed switch      *)
(* trigger while it is moving leaves the addressed axis unchanged.         *)
C13_SwitchOnlyAtRest ==
  last = "poll"
    => /\ kbd.motor # obs.motor0
            => /\ ~stp[obs.motor0].moving
               /\ obs.moving0 => Called("halt")
               /\ obs.state[3] /\ obs.trigger[3]
       /\ (obs.state[3] /\ obs.trigger[3] /\ stp[obs.motor0].moving)
            => kbd.motor = obs.motor0

\* The poll that confirmed the release of the forward button and the press
\* of the switch button halted motor 1 and then addressed motor 2.
C13_Witness ==
  /\ last = "poll"
  /\ obs.motor0 = 1
  /\ kbd.motor = 2
  /\ obs.moving0
  /\ Called("halt")

(* C14: a switch trigger confirmed while the addressed axis is moving is   *)
(* retried: with the button held until the axis has stopped, a later poll  *)
(* switches the addressed axis.                                            *)
(* As stated this fails: the trigger fires in one poll only, and no later  *)
(* poll of the held button switches.                                       *)
C14_SwitchRetried ==
  [](obs.refused => <>(~obs.refused \/ kbd.motor # obs.refMotor))

(* C14 (amended): a switch trigger confirmed while the addressed axis is   *)
(* moving is dropped: as long as the button stays held the addressed axis  *)
(* does not change, also in polls after the axis has stopped.              *)
C14_RefusedSwitchDropped ==
  obs.refused => kbd.motor = obs.refMotor

\* The button is still held in a poll that found the axis stopped.
C14_Witness ==
  /\ obs.refused
  /\ last = "poll"
  /\ ~obs.moving0
  /\ ~stp[kbd.motor].moving
  /\ obs.act = "MOTOR_SWITCH"
  /\ kbd.motor = obs.refMotor

---------------------------------------------------------------------------
(* Feedback-LED keyboard specification: ResKeybd::tick of                  *)
(* ardufocus/ui_reskeybd.cpp, which seeds the direction states from the    *)
(* feedback LED pins and passes api::motor_set_speed the undivided speed.  *)
(* A LED level is TRUE for HIGH.  The timer interrupt is left out: on an   *)
(* idle axis stepper::tick returns at once.                                *)

\* ResKeybd::button_values of ardufocus/ui_reskeybd.cpp.
led_button_values ==
  << <<930, 990, "NOTHING">>,
     <<810, 870, "MOTOR_SWITCH">>,
     <<700, 760, "FAST_FWD">>,
     <<420, 470, "ULTRA_FWD">>,
     <<150, 210, "FAST_BWD">>,
     << 30,  90, "ULTRA_BWD">>,
     <<620, 680, "SLOWEST_FWD">>,
     <<330, 390, "SLOW_FWD">>,
     <<520, 580, "SLOWEST_BWD">>,
     <<250, 310, "SLOW_BWD">> >>

\* ResKeybd::decode(value) over that table.
led_decode(value) == decode_from(led_button_values, 1, value)

\* The keyboard after setup(): both feedback LEDs written LOW.
NewLedKeybd ==
  [motor |-> 1,
   counter |-> <<0, 0, 0>>,
   previous_state |-> <<FALSE, FALSE, FALSE>>,
   old_motor_speed |-> 0,
   led |-> <<FALSE, FALSE>>]

\* ResKeybd::tick() of ardufocus/ui_reskeybd.cpp for the conversion `value`.
\* The third debounce() call is handed bwd_trigger, so it overwrites what
\* the backward debouncer produced, and switch_trigger keeps its initial
\* value.
LedPoll(value) ==
  /\ pc = "idle"
  /\ \E act \in {led_decode(value)} :
     \E d1 \in {debounce(~kbd.led[1] \/ act \in FwdActions,
                         kbd.previous_state[1], kbd.counter[1], threshold)},
        d2 \in {debounce(~kbd.led[2] \/ act \in BwdActions,
                         kbd.previous_state[2], kbd.counter[2], threshold)},
        d3 \in {debounce(act = "MOTOR_SWITCH", kbd.previous_state[3],
                         kbd.counter[3], threshold)} :
     LET m == kbd.motor
         speed == new_motor_speed(act, m)
         fwd_trigger == d1.trigger_event
         bwd_trigger == d3.trigger_event
         switch_trigger == FALSE
         switch_state == d3.current_state
         s0 == stp[m]
         single == ~fwd_trigger \/ ~bwd_trigger
         starting == /\ single
                     /\ \/ fwd_trigger /\ ~d1.current_state
                        \/ bwd_trigger /\ ~d2.current_state
         stopping == single /\ ~starting /\ ~fwd_trigger /\ ~bwd_trigger
         fwd_state == IF starting THEN fwd_trigger ELSE d1.current_state
         bwd_state == IF starting THEN bwd_trigger ELSE d2.current_state
         s1 == IF speed > 0 THEN set_speed(s0, speed) ELSE s0
         start == ~is_moving(s1)
         s2 == IF start
               THEN move_set(move_clear(
                      set_target_position(
                        s1, IF fwd_state THEN TravelEnd ELSE 0, profile)))
               ELSE s1
         sNew == IF starting THEN s2
                 ELSE IF stopping
                 THEN set_speed(halt(s0), kbd.old_motor_speed)
                 ELSE s0
         sw == /\ switch_state /\ switch_trigger
               /\ act = "MOTOR_SWITCH"
               /\ ~is_moving(sNew)
         calls == IF starting
                  THEN (IF speed > 0 THEN <<"set_speed">> ELSE <<>>)
                         \o (IF start THEN <<"set_target_position", "move">>
                             ELSE <<>>)
                  ELSE IF stopping THEN <<"halt", "set_speed">> ELSE <<>>
     IN  /\ stp' = [stp EXCEPT ![m] = sNew]
         /\ kbd' = [motor |-> IF sw THEN OtherMotor(m) ELSE m,
                    counter |-> <<d1.counter, d2.counter, d3.counter>>,
                    previous_state |-> <<d1.previous_state, d2.previous_state,
                                         d3.previous_state>>,
                    old_motor_speed |-> IF starting THEN get_speed(s0)
                                        ELSE kbd.old_motor_speed,
                    led |-> <<fwd_state, bwd_state>>]
         /\ obs' = [NoPoll EXCEPT
                      !.value = value, !.act = act,
                      !.state = <<fwd_state, bwd_state, switch_state>>,
                      !.trigger = <<d1.trigger_event, d2.trigger_event,
                                    d3.trigger_event>>,
                      !.calls = calls, !.motor0 = m,
                      !.moving0 = is_moving(s0)]
  /\ last' = "ledpoll"
  /\ UNCHANGED <<profile, counter, pc, rd, prev, populated, ncmd, nref, since,
                 threshold, deb, run, runTrig, hist, diff>>

\* Conversions the specification samples: no button, the motor switch,
\* slowest forward and slowest backward.
LedSamples == {0, 850, 650, 550}

\* The state before the first poll: motor 1 at rest one step from the
\* backward extreme.
InitLed ==
  /\ profile = ConfiguredProfile
  /\ stp = [InitSteppers EXCEPT ![1] = KbdRest(1, 6)]
  /\ counter = 0
  /\ pc = "idle"
  /\ rd = NoRead
  /\ last = "init"
  /\ prev = "init"
  /\ populated = FALSE
  /\ ncmd = 0
  /\ nref = 0
  /\ since = NoSince
  /\ threshold \in 1..KbdMaxThreshold
  /\ deb = NewDebounce
  /\ run = 0
  /\ runTrig = 0
  /\ hist = <<>>
  /\ diff = NoDiff
  /\ kbd = NewLedKeybd
  /\ obs = NoPoll

NextLed == \E value \in LedSamples : LedPoll(value)

SpecLed == InitLed /\ [][NextLed]_vars

(* C35: in the tick of ardufocus/ui_reskeybd.cpp a press of the motor      *)
(* switch that its debouncer confirms while the addressed axis is idle     *)
(* toggles the addressed axis in that poll, and the poll does not command  *)
(* the axis.                                                               *)
(* The code fails this: the switch debouncer's trigger is written to       *)
(* bwd_trigger.                                                            *)
C35_SwitchTogglesOnce ==
  (/\ last = "ledpoll"
   /\ obs.act = "MOTOR_SWITCH"
   /\ obs.state[3] /\ obs.trigger[3]
   /\ ~obs.moving0)
    => /\ kbd.motor # obs.motor0
       /\ ~Called("move")

=============================================================================
